---------------------------- MODULE Spec2Model ----------------------------
(***************************************************************************)
(* Model of the markdown command-record parsers of mdiss.                   *)
(*                                                                         *)
(* Four implementations of "the same" parser live in the repository and    *)
(* are modelled side by side; the variable impl says which one runs:       *)
(*   "main"       mdiss/parser/main.py            MarkdownParser           *)
(*   "refactored" mdiss/parser/parsers/markdown_parser.py MarkdownParser   *)
(*                (the class that mdiss.parser exports as MarkdownParser)  *)
(*   "handler"    mdiss/parser/handlers/todo_format.py TodoFormatHandler   *)
(*   "legacy"     mdiss/parser.py                  MarkdownParser          *)
(* and "codeblock" is handlers/code_block_parser.py CodeBlockHandler.      *)
(*                                                                         *)
(* Spec runs one call of one entry point step by step.  InstanceSpec runs  *)
(* several parse calls on one MarkdownParser instance, overlapping or one  *)
(* after the other, with the attributes that parse stores on the instance. *)
(*                                                                         *)
(* A text (a Python str) is a sequence of atoms.  An atom is a lexeme: a   *)
(* piece of text that every pattern of the code either takes whole or not  *)
(* at all ("##", "**", "---", a word, a number, one blank, one line feed;  *)
(* a backtick is written BT and a run of three backticks BT3).  Splitting, *)
(* stripping, joining and pattern matching are computed on these sequences *)
(* as the code computes them on characters.                                *)
(***************************************************************************)
EXTENDS Integers, Sequences, FiniteSets, TLC

(***************************************************************************)
(* Atoms                                                                   *)
(***************************************************************************)
NL == "\n"
SP == " "
\* one backtick, and a run of three backticks
BT == "BT"
FENCE == "BT3"
TILDE == "~~~"
RULE == "---"
DASH == "-"
STAR == "*"
BOLD == "**"
COLON == ":"
H1 == "#"
H2 == "##"
H3 == "###"
\* U+274C (cross mark), U+2705 (check mark), U+26A0 (warning sign),
\* U+23F1 (stopwatch), U+FE0F (variation selector 16)
CROSS == "U+274C"
CHECK == "U+2705"
WARN == "U+26A0"
WATCH == "U+23F1"
VS16 == "U+FE0F"

\* str.isspace() per atom
WhiteSpace == {SP, NL}
\* atoms that consist of backticks only / of tildes only / of dashes only
BackTicks == {BT, FENCE}
Tildes == {TILDE}
Dashes == {DASH, RULE}
\* atoms made of \w characters only (letters, digits, underscore)
WordAtoms == {"a", "b", "x", "e", "o", "s", "T", "U", "bash", "python", "abc",
              "2", "254", "0", "make_target", "install", "target",
              "Command", "Output", "Source", "Type", "Status", "Metadata",
              "Error", "stderr", "stdout", "Notes", "Failed", "Passed",
              "Warning", "Timeout", "Custom", "Make", "make",
              "command", "output", "source", "type", "status", "metadata",
              "error", "notes", "failed", "custom", "error_output",
              "return_code", "execution_time"}

(***************************************************************************)
(* str methods                                                             *)
(***************************************************************************)
RECURSIVE lstrip(_, _)
lstrip(s, chars) ==
    IF s # <<>> /\ Head(s) \in chars THEN lstrip(Tail(s), chars) ELSE s

RECURSIVE rstrip(_, _)
rstrip(s, chars) ==
    IF s # <<>> /\ s[Len(s)] \in chars
    THEN rstrip(SubSeq(s, 1, Len(s) - 1), chars)
    ELSE s

\* s.strip(chars); s.strip() is strip(s, WhiteSpace)
strip(s, chars) == lstrip(rstrip(s, chars), chars)

\* index of the first occurrence of atom sep in s at or after i, 0 if none
RECURSIVE find(_, _, _)
find(s, sep, i) ==
    IF i > Len(s) THEN 0
    ELSE IF s[i] = sep THEN i
    ELSE find(s, sep, i + 1)

\* s.split(sep) for a separator that is one atom
RECURSIVE split(_, _)
split(s, sep) ==
    LET i == find(s, sep, 1)
    IN  IF i = 0 THEN <<s>>
        ELSE <<SubSeq(s, 1, i - 1)>> \o split(SubSeq(s, i + 1, Len(s)), sep)

\* sep.join(parts)
RECURSIVE join(_, _)
join(sep, parts) ==
    IF parts = <<>> THEN <<>>
    ELSE IF Len(parts) = 1 THEN parts[1]
    ELSE parts[1] \o <<sep>> \o join(sep, Tail(parts))

\* str.lower() per atom
lowerAtom(a) ==
    CASE a = "Command" -> "command"
      [] a = "Output" -> "output"
      [] a = "Error Output" -> "error output"
      [] a = "Error" -> "error"
      [] a = "Metadata" -> "metadata"
      [] a = "Suggested Solution" -> "suggested solution"
      [] a = "Notes" -> "notes"
      [] a = "Source" -> "source"
      [] a = "Type" -> "type"
      [] a = "Status" -> "status"
      [] a = "Return Code" -> "return code"
      [] a = "Execution Time" -> "execution time"
      [] a = "Make" -> "make"
      [] a = "Failed" -> "failed"
      [] a = "Custom" -> "custom"
      [] a = "T" -> "t"
      [] a = "U" -> "u"
      [] OTHER -> a

lower(s) == [i \in 1..Len(s) |-> lowerAtom(s[i])]

\* the test `word in s` for the keywords the code looks for in a lowered
\* section name; a keyword lies inside one atom
contains(s, word) ==
    \E i \in 1..Len(s) :
        \/ s[i] = word
        \/ word = "error" /\ s[i] \in {"error output", "error_output"}
        \/ word = "output" /\ s[i] \in {"error output", "error_output"}
        \/ word = "suggested" /\ s[i] = "suggested solution"
        \/ word = "solution" /\ s[i] = "suggested solution"
        \/ word = "error output" /\ s[i] = "error output"

IsPrefix(s, t) == Len(s) <= Len(t) /\ SubSeq(t, 1, Len(s)) = s

(***************************************************************************)
(* Patterns.  A match is [ok, g1, g2]: whether the pattern matched, and    *)
(* its groups.                                                             *)
(***************************************************************************)
NoMatch == [ok |-> FALSE, g1 |-> <<>>, g2 |-> <<>>]
Match(a, b) == [ok |-> TRUE, g1 |-> a, g2 |-> b]

\* \d+\.
Ordinals == {"1.", "2."}
\* [\*\-]
Bullets == {STAR, DASH}

\* the index of the first atom of s at or after i that is no blank (\s*)
RECURSIVE skip(_, _)
skip(s, i) == IF i <= Len(s) /\ s[i] \in WhiteSpace THEN skip(s, i + 1) ELSE i

\* s[i..]
from(s, i) == SubSeq(s, i, Len(s))

\* re.match(r"^##\s+\d+\.\s+(.+?)(?:\s*\*\*)?$", line)
title_pattern(line) ==
    LET i == skip(line, 2)
        j == skip(line, i + 1)
    IN  IF /\ Len(line) >= j
           /\ line[1] = H2
           /\ i > 2
           /\ line[i] \in Ordinals
           /\ j > i + 1
        THEN LET rest == from(line, j)
                 cut == rstrip(SubSeq(rest, 1, Len(rest) - 1), WhiteSpace)
             IN  IF rest[Len(rest)] = BOLD /\ cut # <<>>
                 THEN Match(cut, <<>>)
                 ELSE Match(rest, <<>>)
        ELSE NoMatch

\* re.compile(r"^#{1,3}\s+(.+?)(?:\s*\*\*|:)?\s*$").match(line)
hash_header_pattern(line) ==
    LET j == skip(line, 2)
    IN  IF /\ Len(line) >= j
           /\ line[1] \in {H1, H2, H3}
           /\ j > 2
        THEN LET rest == rstrip(from(line, j), WhiteSpace)
                 most == SubSeq(rest, 1, Len(rest) - 1)
                 cut == rstrip(most, WhiteSpace)
             IN  IF rest[Len(rest)] = COLON /\ most # <<>>
                 THEN Match(most, <<>>)
                 ELSE IF rest[Len(rest)] = BOLD /\ cut # <<>>
                 THEN Match(cut, <<>>)
                 ELSE Match(rest, <<>>)
        ELSE NoMatch

\* re.match(r"^###?\s*\*\*(.+?)\*\*:?\s*$", line)
bold_header_pattern(line) ==
    LET j == skip(line, 2)
        rest == rstrip(from(line, j + 1), WhiteSpace)
        body == IF rest # <<>> /\ rest[Len(rest)] = COLON
                THEN SubSeq(rest, 1, Len(rest) - 1)
                ELSE rest
    IN  IF /\ Len(line) >= j
           /\ line[1] \in {H2, H3}
           /\ line[j] = BOLD
           /\ Len(body) >= 2
           /\ body[Len(body)] = BOLD
        THEN Match(SubSeq(body, 1, Len(body) - 1), <<>>)
        ELSE NoMatch

\* re.match(r"^###?\s*([^:]+):?\s*$", line); "###" alone matches as "##"
\* followed by the name "#"
plain_header_pattern(line) ==
    IF Len(line) >= 1 /\ line[1] \in {H2, H3}
    THEN LET rest == rstrip(from(line, 2), WhiteSpace)
             body == IF rest # <<>> /\ rest[Len(rest)] = COLON
                     THEN SubSeq(rest, 1, Len(rest) - 1)
                     ELSE rest
             name == IF lstrip(body, WhiteSpace) # <<>>
                     THEN lstrip(body, WhiteSpace)
                     ELSE IF body # <<>> THEN <<body[Len(body)]>>
                     ELSE body
         IN  IF find(body, COLON, 1) # 0 THEN NoMatch
             ELSE IF name # <<>> THEN Match(name, <<>>)
             ELSE IF line[1] = H3 /\ body = <<>> THEN Match(<<H1>>, <<>>)
             ELSE NoMatch
    ELSE NoMatch

\* the first k >= i with s[k] = ":" and s[k+1] = "**", 0 if none
RECURSIVE find_key_end(_, _)
find_key_end(s, i) ==
    IF i + 1 > Len(s) THEN 0
    ELSE IF s[i] = COLON /\ s[i + 1] = BOLD THEN i
    ELSE find_key_end(s, i + 1)

\* re.compile(r"^\s*[\*\-]?\s*\*\*(.+?):\*\*\s*(.+?)\s*$").match(line)
metadata_pattern(line) ==
    LET i == skip(line, 1)
        j == IF i <= Len(line) /\ line[i] \in Bullets
             THEN skip(line, i + 1)
             ELSE i
        k == find_key_end(line, j + 2)
        v == skip(line, k + 2)
    IN  IF /\ j <= Len(line)
           /\ line[j] = BOLD
           /\ k # 0
           /\ v <= Len(line)
        THEN Match(SubSeq(line, j + 1, k - 1), rstrip(from(line, v), WhiteSpace))
        ELSE NoMatch

\* line.strip() in ("```", "~~~")
is_fence(line) == strip(line, WhiteSpace) \in {<<FENCE>>, <<TILDE>>}

\* line.strip().startswith(("```", "~~~"))
starts_with_fence(line) ==
    LET t == strip(line, WhiteSpace)
    IN  t # <<>> /\ t[1] \in {FENCE, TILDE}

(***************************************************************************)
(* Scalars                                                                 *)
(***************************************************************************)
\* int(value): [ok, val]; ok = FALSE stands for ValueError
int(v) ==
    LET digits(a) == CASE a = "0" -> 0 [] a = "2" -> 2 [] a = "254" -> 254
                       [] OTHER -> -1
        t == strip(v, WhiteSpace)
    IN  IF Len(t) = 1 /\ digits(t[1]) >= 0
        THEN [ok |-> TRUE, val |-> digits(t[1])]
        ELSE IF Len(t) = 2 /\ t[1] = DASH /\ digits(t[2]) >= 0
        THEN [ok |-> TRUE, val |-> 0 - digits(t[2])]
        ELSE [ok |-> FALSE, val |-> 0]

\* float(value): [ok, val]; a float is written as Python prints it
float(v) ==
    LET t == strip(v, WhiteSpace)
        num(a) == CASE a = "0" -> "0.0" [] a = "2" -> "2.0"
                    [] a = "254" -> "254.0" [] a = "1.47" -> "1.47"
                    [] a = "1." -> "1.0" [] a = "2." -> "2.0"
                    [] OTHER -> ""
    IN  IF Len(t) = 1 /\ num(t[1]) # ""
        THEN [ok |-> TRUE, val |-> num(t[1])]
        ELSE [ok |-> FALSE, val |-> ""]

\* re.sub(r"[\U0001F600-\U0001F64F\U0001F300-\U0001F5FF\U0001F680-\U0001F6FF
\*          \U0001F1E0-\U0001F1FF\u2600-\u26FF\u2700-\u27BF]", "", status)
InEmojiRanges == {CROSS, CHECK, WARN}
remove_emojis(s) == SelectSeq(s, LAMBDA a : a \notin InEmojiRanges)

status_map(s) ==
    CASE s = <<CROSS, SP, "Failed">> -> <<"Failed">>
      [] s = <<CHECK, SP, "Passed">> -> <<"Passed">>
      [] s = <<WARN, VS16, SP, "Warning">> -> <<"Warning">>
      [] s = <<WATCH, VS16, SP, "Timeout">> -> <<"Timeout">>
      [] OTHER -> s

clean_status(status) ==
    IF status = <<>> THEN <<>>
    ELSE status_map(strip(remove_emojis(status), WhiteSpace))

(***************************************************************************)
(* dict, as the sequence of its (key, value) pairs in insertion order      *)
(***************************************************************************)
dict_has(d, k) == \E i \in 1..Len(d) : d[i][1] = k
dict_get(d, k) == d[CHOOSE i \in 1..Len(d) : d[i][1] = k][2]
dict_set(d, k, v) ==
    IF dict_has(d, k)
    THEN [i \in 1..Len(d) |-> IF d[i][1] = k THEN <<k, v>> ELSE d[i]]
    ELSE Append(d, <<k, v>>)

(***************************************************************************)
(* The models of mdiss/parser/models/__init__.py                           *)
(***************************************************************************)
\* error_output: Optional[ErrorOutput]
None == [is_none |-> TRUE, content |-> <<>>, is_from_code_block |-> FALSE]
ErrorOutput(content, is_from_code_block) ==
    [is_none |-> FALSE, content |-> content,
     is_from_code_block |-> is_from_code_block]

CodeBlock(content, language) == [content |-> content, language |-> language]
Section(name) == [name |-> name, content |-> <<>>, code_blocks |-> <<>>]

CommandData(title, command, source, command_type, status, return_code, error_output, metadata) ==
    [title |-> title, command |-> command, source |-> source,
     command_type |-> command_type, status |-> status,
     return_code |-> return_code, execution_time |-> "0.0",
     output |-> <<>>, error_output |-> error_output,
     metadata |-> metadata, sections |-> <<>>]

\* the names a section header is mapped to; no section is the empty name
NoSection == <<>>
SecCommand == <<"command">>
SecOutput == <<"output">>
SecErrorOutput == <<"error_output">>
SecSuggested == <<"suggested_solution">>
SecMetadata == <<"metadata">>

\* command.get_section(name) or command.add_section(name), then
\* section.code_blocks.append(block)
append_code_block(command, name, block) ==
    LET sec == IF dict_has(command.sections, name)
               THEN dict_get(command.sections, name)
               ELSE Section(name)
    IN  [command EXCEPT !.sections =
            dict_set(@, name, [sec EXCEPT !.code_blocks = Append(@, block)])]

\* command.get_section(name) or command.add_section(name), then
\* section.content = content
set_section_content(command, name, content) ==
    LET sec == IF dict_has(command.sections, name)
               THEN dict_get(command.sections, name)
               ELSE Section(name)
    IN  [command EXCEPT !.sections =
            dict_set(@, name, [sec EXCEPT !.content = content])]

\* the local state of the loop over the lines of one section
ParserState(command) ==
    [current_section |-> NoSection, in_code_block |-> FALSE,
     code_block_content |-> <<>>, code_block_language |-> <<>>,
     command |-> command]

(***************************************************************************)
(* mdiss/parser/main.py: MarkdownParser                                    *)
(***************************************************************************)
\* the keyword classification of a lowered section name; unknown(name) is
\* what a name without keyword gives
section_type(name, unknown) ==
    IF contains(name, "command") THEN SecCommand
    ELSE IF contains(name, "output") /\ ~contains(name, "error") THEN SecOutput
    ELSE IF \E x \in {"error", "stderr", "error output"} : contains(name, x)
    THEN SecErrorOutput
    ELSE IF contains(name, "suggested") /\ contains(name, "solution")
    THEN SecSuggested
    ELSE IF contains(name, "metadata") THEN SecMetadata
    ELSE unknown

Main_create_command(title, file_path) ==
    CommandData(title, <<>>, file_path, <<"shell">>, <<"Failed">>, 1, None, <<>>)

Main_parse_metadata(line, command) ==
    LET m == metadata_pattern(line)
        key == lower(strip(m.g1, WhiteSpace))
        value == strip(m.g2, WhiteSpace)
    IN  IF ~m.ok THEN command
        ELSE IF key = <<"command">>
        THEN [command EXCEPT !.command = strip(value, BackTicks)]
        ELSE IF key = <<"source">> THEN [command EXCEPT !.source = value]
        ELSE IF key = <<"type">>
        THEN [command EXCEPT !.command_type = lower(value)]
        ELSE IF key = <<"status">>
        THEN [command EXCEPT !.status = clean_status(value)]
        ELSE IF key \in {<<"return code">>, <<"return_code">>}
        THEN [command EXCEPT !.return_code =
                 IF int(value).ok THEN int(value).val ELSE 1]
        ELSE IF key \in {<<"execution time">>, <<"execution_time">>}
        THEN LET f == float(strip(rstrip(value, {"s"}), WhiteSpace))
             IN  IF f.ok THEN [command EXCEPT !.execution_time = f.val]
                 ELSE command
        ELSE IF key \in {<<"output">>, <<"stdout">>}
        THEN [command EXCEPT !.output = value]
        ELSE IF key \in {<<"error">>, <<"error_output">>, <<"stderr">>}
        THEN [command EXCEPT !.error_output = ErrorOutput(value, FALSE)]
        ELSE [command EXCEPT !.metadata = dict_set(@, key, value)]

\* if command.error_output: content += "\n" + value, else a new ErrorOutput
append_error_output(command, value) ==
    IF ~command.error_output.is_none
    THEN [command EXCEPT !.error_output.content = @ \o <<NL>> \o value]
    ELSE [command EXCEPT !.error_output = ErrorOutput(value, FALSE)]

Main_update_command_field(command, field, value) ==
    IF field = SecCommand
    THEN [command EXCEPT !.command = strip(value, BackTicks)]
    ELSE IF field = SecOutput THEN [command EXCEPT !.output = value]
    ELSE IF field = SecErrorOutput THEN append_error_output(command, value)
    ELSE IF field = SecSuggested
    THEN [command EXCEPT !.metadata = dict_set(@, SecSuggested, value)]
    ELSE [command EXCEPT !.metadata = dict_set(@, field, value)]

Main_finalize_section(command, section_name, code_block_content) ==
    LET content == strip(join(NL, code_block_content), {NL})
    IN  IF code_block_content # <<>> /\ section_name # NoSection /\ content # <<>>
        THEN IF section_name = SecErrorOutput
             THEN append_error_output(command, content)
             ELSE set_section_content(command, section_name, content)
        ELSE command

\* one iteration of the loop of _process_section_content
Main_process_line(st, raw) ==
    LET line == rstrip(raw, WhiteSpace)
        cs == st.current_section
        m == hash_header_pattern(line)
        block_content == strip(join(NL, st.code_block_content), {NL})
    IN  IF is_fence(line)
        THEN IF st.in_code_block /\ st.code_block_content # <<>> /\ cs # NoSection
             THEN [st EXCEPT
                     !.in_code_block = FALSE,
                     !.code_block_content = <<>>,
                     !.command =
                        IF block_content = <<>> THEN @
                        ELSE IF cs = SecErrorOutput
                        THEN [@ EXCEPT !.error_output =
                                 ErrorOutput(block_content, TRUE)]
                        ELSE append_code_block(@, cs, CodeBlock(block_content, <<>>))]
             ELSE [st EXCEPT !.in_code_block = ~@]
        ELSE IF st.in_code_block
        THEN [st EXCEPT !.code_block_content = Append(@, line)]
        ELSE IF m.ok
        THEN [st EXCEPT
                !.command = Main_finalize_section(@, cs, st.code_block_content),
                !.code_block_content = <<>>,
                !.current_section = section_type(lower(m.g1), NoSection)]
        ELSE IF strip(line, WhiteSpace) = <<>> \/ cs = NoSection THEN st
        ELSE IF cs = SecMetadata
        THEN [st EXCEPT !.command = Main_parse_metadata(line, @)]
        ELSE [st EXCEPT !.command = Main_update_command_field(@, cs, line)]

(***************************************************************************)
(* mdiss/parser/parsers/markdown_parser.py: MarkdownParser                 *)
(***************************************************************************)
Refactored_create_command(title, file_path) ==
    CommandData(title, <<>>, file_path, <<"shell">>, <<"Failed">>, 1,
                ErrorOutput(<<>>, FALSE), <<<<<<"title">>, title>>>>)

Refactored_finalize_code_block(st) ==
    LET content == IF st.code_block_content # <<>>
                      /\ starts_with_fence(st.code_block_content[1])
                   THEN Tail(st.code_block_content)
                   ELSE st.code_block_content
        block_content == strip(join(NL, content), WhiteSpace)
    IN  IF st.code_block_content = <<>> \/ st.current_section = NoSection
        THEN st.command
        ELSE IF block_content = <<>> THEN st.command
        ELSE IF st.current_section = SecErrorOutput
        THEN [st.command EXCEPT !.error_output = ErrorOutput(block_content, TRUE)]
        ELSE append_code_block(st.command, st.current_section,
                               CodeBlock(block_content, st.code_block_language))

Refactored_handle_code_block_marker(line, st) ==
    IF st.in_code_block
    THEN [st EXCEPT !.command = Refactored_finalize_code_block(st),
                    !.code_block_content = <<>>,
                    !.in_code_block = FALSE,
                    !.code_block_language = <<>>]
    ELSE [st EXCEPT !.in_code_block = TRUE,
                    !.code_block_language =
                        strip(strip(strip(line, WhiteSpace), BackTicks \cup Tildes),
                              WhiteSpace)]

Refactored_finalize_section(st) ==
    IF st.in_code_block /\ st.code_block_content # <<>>
    THEN [st EXCEPT !.command = Refactored_finalize_code_block(st),
                    !.code_block_content = <<>>,
                    !.in_code_block = FALSE,
                    !.code_block_language = <<>>]
    ELSE st

Refactored_update_command_field(command, field, value) ==
    IF field = <<"command">>
    THEN [command EXCEPT !.command = strip(value, BackTicks)]
    ELSE IF field = <<"output">> THEN [command EXCEPT !.output = value]
    ELSE IF field = <<"error_output">> THEN append_error_output(command, value)
    ELSE IF field = <<"suggested_solution">>
    THEN [command EXCEPT !.metadata = dict_set(@, SecSuggested, value)]
    ELSE [command EXCEPT !.metadata = dict_set(@, field, value)]

\* the static _parse_metadata_line(line, metadata)
Refactored_parse_metadata_line(line, metadata) ==
    LET i == find(line, COLON, 1)
    IN  IF i # 0
        THEN dict_set(metadata, strip(SubSeq(line, 1, i - 1), WhiteSpace),
                      strip(from(line, i + 1), WhiteSpace))
        ELSE metadata

Refactored_update_section_content(line, section_name, command) ==
    IF section_name = SecCommand
    THEN [command EXCEPT !.command = strip(line, WhiteSpace)]
    ELSE IF section_name = SecOutput
    THEN [command EXCEPT !.output =
             IF @ # <<>> THEN @ \o <<NL>> \o line ELSE line]
    ELSE IF section_name = SecErrorOutput
    THEN append_error_output(command, line)
    ELSE IF section_name = SecSuggested
    THEN [command EXCEPT !.metadata = dict_set(@, SecSuggested, line)]
    ELSE IF section_name = SecMetadata
    THEN [command EXCEPT !.metadata = Refactored_parse_metadata_line(line, @)]
    ELSE command

Refactored_process_regular_line(line, st) ==
    LET kv == metadata_pattern(line)
    IN  IF strip(line, WhiteSpace) = <<>> THEN st
        ELSE IF kv.ok
        THEN [st EXCEPT !.command =
                 Refactored_update_command_field(@,
                     strip(lower(kv.g1), WhiteSpace), strip(kv.g2, WhiteSpace))]
        ELSE IF st.current_section # NoSection
        THEN [st EXCEPT !.command =
                 Refactored_update_section_content(line, st.current_section, @)]
        ELSE st

\* one iteration of the loop of _process_section_content
Refactored_process_line(st, raw) ==
    LET line == rstrip(raw, WhiteSpace)
        m == hash_header_pattern(line)
    IN  IF starts_with_fence(line)
        THEN Refactored_handle_code_block_marker(line, st)
        ELSE IF st.in_code_block
        THEN [st EXCEPT !.code_block_content = Append(@, line)]
        ELSE IF m.ok
        THEN [Refactored_finalize_section(st) EXCEPT
                !.current_section = section_type(lower(m.g1), NoSection)]
        ELSE Refactored_process_regular_line(line, st)

(***************************************************************************)
(* mdiss/parser/handlers/todo_format.py: TodoFormatHandler                 *)
(***************************************************************************)
\* self.section_header_pattern.match(line): the bold form, else the plain
Todo_section_header_pattern(line) ==
    IF bold_header_pattern(line).ok
    THEN Match(bold_header_pattern(line).g1, <<>>)
    ELSE IF plain_header_pattern(line).ok
    THEN Match(<<>>, plain_header_pattern(line).g1)
    ELSE NoMatch

Todo_parse_section_header(m) ==
    LET section_name == IF m.g1 # <<>> THEN m.g1 ELSE m.g2
        name == strip(lower(section_name), WhiteSpace)
    IN  IF section_name = <<>> THEN NoSection
        ELSE section_type(name, name)

Todo_parse_metadata_line(line, command) ==
    LET m == metadata_pattern(line)
        key == lower(strip(m.g1, WhiteSpace))
        value == strip(m.g2, WhiteSpace)
    IN  IF ~m.ok THEN command
        ELSE IF key = <<"command">>
        THEN [command EXCEPT !.command = strip(value, BackTicks)]
        ELSE IF key = <<"source">> THEN [command EXCEPT !.source = value]
        ELSE IF key = <<"type">>
        THEN [command EXCEPT !.command_type = lower(value)]
        ELSE IF key = <<"status">> THEN [command EXCEPT !.status = value]
        ELSE IF key \in {<<"return code">>, <<"return_code">>}
        THEN [command EXCEPT !.return_code =
                 IF int(value).ok THEN int(value).val ELSE 1]
        ELSE IF key \in {<<"execution time">>, <<"execution_time">>}
        THEN LET f == float(strip(rstrip(value, {"s"}), WhiteSpace))
             IN  IF f.ok THEN [command EXCEPT !.execution_time = f.val]
                 ELSE command
        ELSE IF key \in {<<"output">>, <<"stdout">>}
        THEN [command EXCEPT !.output = value]
        ELSE IF key \in {<<"error">>, <<"error_output">>, <<"stderr">>}
        THEN [command EXCEPT !.error_output = ErrorOutput(value, FALSE)]
        ELSE [command EXCEPT !.metadata = dict_set(@, key, value)]

Todo_process_line(line, section, command) ==
    IF section = SecMetadata THEN Todo_parse_metadata_line(line, command)
    ELSE IF section = SecCommand
    THEN [command EXCEPT !.command = strip(strip(line, BackTicks), WhiteSpace)]
    ELSE IF section = SecOutput THEN [command EXCEPT !.output = line]
    ELSE IF section = SecErrorOutput THEN append_error_output(command, line)
    ELSE IF section = SecSuggested
    THEN [command EXCEPT !.metadata = dict_set(@, SecSuggested, line)]
    ELSE command

\* command.sections[section].append(CodeBlock(content=content)): the
\* handler keeps a list of blocks per section name
Todo_append_section_block(command, section, content) ==
    LET blocks == IF dict_has(command.sections, section)
                  THEN dict_get(command.sections, section)
                  ELSE <<>>
    IN  [command EXCEPT !.sections =
            dict_set(@, section, Append(blocks, CodeBlock(content, <<>>)))]

Todo_process_code_block(content, section, command) ==
    IF strip(content, WhiteSpace) = <<>> THEN command
    ELSE IF section = SecErrorOutput
    THEN IF ~command.error_output.is_none
         THEN [command EXCEPT !.error_output.content = @ \o <<NL>> \o content]
         ELSE [command EXCEPT !.error_output = ErrorOutput(content, TRUE)]
    ELSE IF section = SecOutput THEN [command EXCEPT !.output = content]
    ELSE IF section = SecCommand
    THEN [command EXCEPT !.command = strip(content, BackTicks)]
    ELSE Todo_append_section_block(command, section, content)

\* one iteration of the loop of _parse_section
Todo_parse_section_line(st, raw) ==
    LET line == rstrip(raw, WhiteSpace)
        cs == st.current_section
        m == Todo_section_header_pattern(line)
    IN  IF is_fence(line)
        THEN IF st.in_code_block /\ st.code_block_content # <<>> /\ cs # NoSection
             THEN [st EXCEPT
                     !.in_code_block = FALSE,
                     !.code_block_content = <<>>,
                     !.command = Todo_process_code_block(
                                     join(NL, st.code_block_content), cs, @)]
             ELSE [st EXCEPT !.in_code_block = ~@]
        ELSE IF st.in_code_block
        THEN [st EXCEPT !.code_block_content = Append(@, line)]
        ELSE IF m.ok
        THEN [st EXCEPT !.current_section = Todo_parse_section_header(m)]
        ELSE IF strip(line, WhiteSpace) = <<>> \/ cs = NoSection THEN st
        ELSE [st EXCEPT !.command = Todo_process_line(line, cs, @)]

\* the statements of _parse_section after its loop
Todo_parse_section_end(st) ==
    IF st.in_code_block /\ st.code_block_content # <<>>
       /\ st.current_section # NoSection
    THEN [st EXCEPT !.command = Todo_process_code_block(
                         join(NL, st.code_block_content), st.current_section, @)]
    ELSE st

(***************************************************************************)
(* mdiss/parser.py: the legacy MarkdownParser, whose records are dicts     *)
(***************************************************************************)
\* the dict a titled section starts as; extra holds the keys added later
Legacy_current_cmd(title, file_path) ==
    [title |-> title, file |-> file_path, command |-> <<>>,
     command_type |-> <<"shell">>, status |-> <<"Failed">>, return_code |-> 1,
     execution_time |-> "0.0", output |-> <<>>, error_output |-> <<>>,
     source |-> file_path,
     metadata |-> [is_dict |-> TRUE, data |-> <<>>, text |-> <<>>],
     extra |-> <<>>]

\* key in current_cmd
Legacy_has(cmd, key) ==
    \/ key \in {SecCommand, SecOutput, SecErrorOutput, SecMetadata}
    \/ dict_has(cmd.extra, key)

\* current_cmd[key], for the keys a section name can be
Legacy_get(cmd, key) ==
    IF key = SecCommand THEN cmd.command
    ELSE IF key = SecOutput THEN cmd.output
    ELSE IF key = SecErrorOutput THEN cmd.error_output
    ELSE IF key = SecMetadata THEN cmd.metadata.text
    ELSE dict_get(cmd.extra, key)

\* current_cmd[key] = value, for the keys a section name can be
Legacy_set(cmd, key, value) ==
    IF key = SecCommand THEN [cmd EXCEPT !.command = value]
    ELSE IF key = SecOutput THEN [cmd EXCEPT !.output = value]
    ELSE IF key = SecErrorOutput THEN [cmd EXCEPT !.error_output = value]
    ELSE IF key = SecMetadata
    THEN [cmd EXCEPT !.metadata = [is_dict |-> FALSE, data |-> <<>>, text |-> value]]
    ELSE [cmd EXCEPT !.extra = dict_set(@, key, value)]

\* re.finditer(r"\*\*([^:]+):\*\*\s*([^\n]+)", metadata_text) from position
\* i; a match whose value is only white space stores nothing
RECURSIVE Legacy_parse_metadata_from(_, _, _)
Legacy_parse_metadata_from(s, i, metadata) ==
    IF i > Len(s) THEN metadata
    ELSE LET c == find(s, COLON, i + 1)
             j == skip(s, c + 2)
             e == IF find(s, NL, j) = 0 THEN Len(s) + 1 ELSE find(s, NL, j)
             key == strip(SubSeq(s, i + 1, c - 1), WhiteSpace)
             value == strip(SubSeq(s, j, e - 1), WhiteSpace)
         IN  IF s[i] = BOLD /\ c > i + 1 /\ c + 1 <= Len(s) /\ s[c + 1] = BOLD
                /\ j <= Len(s)
             THEN Legacy_parse_metadata_from(s, e,
                      IF key # <<>> /\ value # <<>>
                      THEN dict_set(metadata, key, value) ELSE metadata)
             ELSE Legacy_parse_metadata_from(s, i + 1, metadata)

Legacy_parse_metadata(metadata_text) ==
    Legacy_parse_metadata_from(metadata_text, 1, <<>>)

Legacy_update_command_data(cmd_data, key, value) ==
    LET key_lower == lower(key)
    IN  IF value = <<>> THEN cmd_data
        ELSE IF key_lower = <<"command">>
        THEN [cmd_data EXCEPT !.command = strip(value, BackTicks)]
        ELSE IF key_lower = <<"source">> THEN [cmd_data EXCEPT !.source = value]
        ELSE IF key_lower = <<"type">>
        THEN [cmd_data EXCEPT !.command_type = lower(value)]
        ELSE IF key_lower = <<"status">>
        THEN [cmd_data EXCEPT !.status = clean_status(value)]
        ELSE IF key_lower \in {<<"return code">>, <<"return_code">>}
        THEN [cmd_data EXCEPT !.return_code =
                 IF int(value).ok THEN int(value).val ELSE 1]
        ELSE IF key_lower \in {<<"execution time">>, <<"execution_time">>}
        THEN LET f == float(strip(rstrip(value, {"s"}), WhiteSpace))
             IN  IF f.ok THEN [cmd_data EXCEPT !.execution_time = f.val]
                 ELSE cmd_data
        ELSE IF key_lower \in {<<"output">>, <<"stdout">>}
        THEN [cmd_data EXCEPT !.output = value]
        ELSE IF key_lower \in {<<"error">>, <<"error_output">>, <<"stderr">>}
        THEN [cmd_data EXCEPT !.error_output = value]
        ELSE IF key_lower = <<"metadata">>
        THEN [cmd_data EXCEPT !.metadata =
                 [is_dict |-> TRUE, data |-> Legacy_parse_metadata(value),
                  text |-> <<>>]]
        ELSE cmd_data

Legacy_finalize_section(current_cmd, current_section, code_block_content) ==
    LET content == strip(join(NL, code_block_content), {NL})
    IN  IF code_block_content # <<>> /\ current_section # NoSection
           /\ content # <<>>
        THEN IF current_section = SecErrorOutput
             THEN [current_cmd EXCEPT !.error_output = @ \o <<NL>> \o content]
             ELSE Legacy_set(current_cmd, current_section, content)
        ELSE current_cmd

\* re.match(bold form, line) or re.match(plain form, line)
Legacy_section_match(line) ==
    IF bold_header_pattern(line).ok THEN bold_header_pattern(line)
    ELSE plain_header_pattern(line)

\* one iteration of the loop of _process_section_content
Legacy_process_line(st, raw) ==
    LET line == rstrip(raw, WhiteSpace)
        cs == st.current_section
        m == Legacy_section_match(line)
        kv == metadata_pattern(line)
        block_content == strip(join(NL, st.code_block_content), {NL})
    IN  IF is_fence(line)
        THEN IF st.in_code_block /\ st.code_block_content # <<>> /\ cs # NoSection
             THEN [st EXCEPT
                     !.in_code_block = FALSE,
                     !.code_block_content = <<>>,
                     !.command =
                        IF block_content = <<>> THEN @
                        ELSE IF cs = SecErrorOutput
                        THEN [@ EXCEPT !.error_output =
                                 rstrip(@, {NL}) \o <<NL>> \o block_content]
                        ELSE Legacy_set(@, cs, block_content)]
             ELSE [st EXCEPT !.in_code_block = ~@]
        ELSE IF st.in_code_block
        THEN [st EXCEPT !.code_block_content = Append(@, line)]
        ELSE IF m.ok
        THEN [st EXCEPT
                !.command = IF cs # NoSection
                            THEN Legacy_finalize_section(@, cs, st.code_block_content)
                            ELSE @,
                !.code_block_content = <<>>,
                !.current_section = section_type(lower(m.g1), NoSection)]
        ELSE IF strip(line, WhiteSpace) = <<>> \/ cs = NoSection THEN st
        ELSE IF cs = SecMetadata
        THEN IF kv.ok
             THEN [st EXCEPT !.command =
                      Legacy_update_command_data(@,
                          lower(strip(kv.g1, WhiteSpace)), strip(kv.g2, WhiteSpace))]
             ELSE st
        ELSE IF cs = SecErrorOutput
        THEN [st EXCEPT !.command.error_output =
                 IF @ # <<>> THEN rstrip(@, {NL}) \o <<NL>> \o line ELSE line]
        ELSE IF ~Legacy_has(st.command, cs)
        THEN [st EXCEPT !.command = Legacy_set(@, cs, line)]
        ELSE [st EXCEPT !.command =
                 Legacy_set(@, cs, rstrip(Legacy_get(@, cs), {NL}) \o <<NL>> \o line)]

\* finalize_command() of _parse_todo_format: the outer current_section is
\* always None there, so only the append is left of it
Legacy_finalize_command(commands, current_cmd) ==
    Append(commands, [current_cmd EXCEPT !.command = strip(@, BackTicks)])

(***************************************************************************)
(* The code-block fallback                                                 *)
(***************************************************************************)
\* index after an optional \w+ that follows the opening fence at i
after_word(s, i) ==
    IF i + 1 <= Len(s) /\ s[i + 1] \in WordAtoms THEN i + 2 ELSE i + 1

\* index of the last newline in s[i..j-1], 0 if none
RECURSIVE last_newline(_, _, _)
last_newline(s, i, j) ==
    IF j <= i THEN 0
    ELSE IF s[j - 1] = NL THEN j - 1
    ELSE last_newline(s, i, j - 1)

BlockMatch(first, last) == [ok |-> TRUE, first |-> first, last |-> last]
NoBlockMatch == [ok |-> FALSE, first |-> 0, last |-> 0]

\* r"```(?:\w+)?\s*\n(.*?)```" tried at the fence s[i]: first and last are
\* the bounds of group 1, the closing fence is s[last + 1]
Main_code_block_pattern(s, i) ==
    LET w == after_word(s, i)
        n == last_newline(s, w, skip(s, w))
    IN  IF n # 0 /\ find(s, FENCE, n + 1) # 0
        THEN BlockMatch(n + 1, find(s, FENCE, n + 1) - 1)
        ELSE NoBlockMatch

\* r"```(?:\w+)?\n(.*?)```" tried at the fence s[i]
Refactored_code_block_pattern(s, i) ==
    LET w == after_word(s, i)
    IN  IF w <= Len(s) /\ s[w] = NL /\ find(s, FENCE, w + 1) # 0
        THEN BlockMatch(w + 1, find(s, FENCE, w + 1) - 1)
        ELSE NoBlockMatch

\* r"```(?:\w*\n)?(.*?)```" tried at the fence s[i]
Base_code_block_pattern(s, i) ==
    LET w == after_word(s, i)
        g == IF w <= Len(s) /\ s[w] = NL THEN w + 1 ELSE i + 1
    IN  IF find(s, FENCE, g) # 0
        THEN BlockMatch(g, find(s, FENCE, g) - 1)
        ELSE NoBlockMatch

code_block_pattern(kind, s, i) ==
    IF kind = "refactored" THEN Refactored_code_block_pattern(s, i)
    ELSE IF kind = "base" THEN Base_code_block_pattern(s, i)
    ELSE Main_code_block_pattern(s, i)

\* pattern.finditer(s) from position i: the matches in order, each with
\* group 0 and group 1
RECURSIVE finditer(_, _, _)
finditer(kind, s, i) ==
    IF i > Len(s) THEN <<>>
    ELSE LET m == code_block_pattern(kind, s, i)
         IN  IF s[i] = FENCE /\ m.ok
             THEN <<[start |-> i,
                     group0 |-> SubSeq(s, i, m.last + 1),
                     group1 |-> SubSeq(s, m.first, m.last)]>>
                  \o finditer(kind, s, m.last + 2)
             ELSE finditer(kind, s, i + 1)

\* the command _parse_code_blocks makes of one match
code_block_command(created, m) ==
    LET language == lower(strip(split(m.group0, NL)[1], BackTicks))
    IN  [created EXCEPT
            !.command = strip(m.group1, WhiteSpace),
            !.command_type =
                IF language # <<>> /\ language # <<"bash">> THEN language ELSE @]

RECURSIVE code_block_commands(_, _)
code_block_commands(created, matches) ==
    IF matches = <<>> THEN <<>>
    ELSE (IF strip(matches[1].group1, WhiteSpace) = <<>> THEN <<>>
          ELSE <<code_block_command(created, matches[1])>>)
         \o code_block_commands(created, Tail(matches))

FallbackTitle == <<"Command from code block">>

Main_parse_code_blocks(content, file_path) ==
    code_block_commands(Main_create_command(FallbackTitle, file_path),
                        finditer("main", content, 1))

Refactored_parse_code_blocks(content, file_path) ==
    code_block_commands(Refactored_create_command(FallbackTitle, file_path),
                        finditer("refactored", content, 1))

\* handlers/code_block_parser.py: the command CodeBlockHandler.parse makes
\* of one match; re.match(r"^```(\w+)", group 0) gives the tag
CodeBlock_command(m, file_path) ==
    LET created == CommandData(FallbackTitle, strip(m.group1, WhiteSpace),
                               file_path, <<"shell">>, <<"Unknown">>, 0, None, <<>>)
    IN  IF Len(m.group0) >= 2 /\ m.group0[2] \in WordAtoms
        THEN [created EXCEPT !.command_type = lower(<<m.group0[2]>>)]
        ELSE created

RECURSIVE CodeBlock_commands(_, _)
CodeBlock_commands(matches, file_path) ==
    IF matches = <<>> THEN <<>>
    ELSE (IF strip(matches[1].group1, WhiteSpace) = <<>> THEN <<>>
          ELSE <<CodeBlock_command(matches[1], file_path)>>)
         \o CodeBlock_commands(Tail(matches), file_path)

CodeBlock_parse(content, file_path) ==
    CodeBlock_commands(finditer("main", content, 1), file_path)

\* s.count("\n")
count_newlines(s) == Len(SelectSeq(s, LAMBDA a : a = NL))

\* _extract_commands(text): the lines that hold a shell prompt; group 1 of
\* r"^\s*\$\s*(.+?)(?:\s*#|$)" is what follows the prompt up to a "#"
DOLLAR == "$"
RECURSIVE first_hash(_, _)
first_hash(s, i) ==
    IF i > Len(s) THEN 0
    ELSE IF s[i] \in {H1, H2, H3} THEN i
    ELSE first_hash(s, i + 1)

RECURSIVE Legacy_extract_commands(_, _)
Legacy_extract_commands(lines, n) ==
    IF n > Len(lines) THEN <<>>
    ELSE LET l == lstrip(lines[n], WhiteSpace)
             rest == lstrip(Tail(l), WhiteSpace)
             h == first_hash(rest, 2)
             cmd == strip(IF h = 0 THEN rest ELSE SubSeq(rest, 1, h - 1), WhiteSpace)
         IN  (IF l # <<>> /\ l[1] = DOLLAR /\ cmd # <<>>
              THEN <<[command |-> cmd, line_number |-> n,
                      original_line |-> strip(lines[n], WhiteSpace)]>>
              ELSE <<>>)
             \o Legacy_extract_commands(lines, n + 1)

\* the dicts parse_content makes of the matches
RECURSIVE Legacy_parse_content_results(_, _, _)
Legacy_parse_content_results(content, file_path, matches) ==
    IF matches = <<>> THEN <<>>
    ELSE LET code_block == strip(matches[1].group1, WhiteSpace)
             start_line == count_newlines(SubSeq(content, 1, matches[1].start - 1)) + 1
         IN  (IF code_block = <<>> THEN <<>>
              ELSE <<[file |-> file_path, code_block |-> code_block,
                      start_line |-> start_line,
                      end_line |-> start_line + count_newlines(code_block),
                      commands |-> Legacy_extract_commands(split(code_block, NL), 1)]>>)
             \o Legacy_parse_content_results(content, file_path, Tail(matches))

Legacy_parse_content(content, file_path) ==
    Legacy_parse_content_results(content, file_path, finditer("main", content, 1))

\* the list BaseMarkdownParser.parse_file makes of the groups re.findall gives
RECURSIVE Base_blocks(_, _)
Base_blocks(matches, path) ==
    IF matches = <<>> THEN <<>>
    ELSE LET ls == split(strip(matches[1].group1, WhiteSpace), NL)
             cleaned == join(NL, [k \in 1..Len(ls) |-> rstrip(ls[k], WhiteSpace)])
         IN  (IF cleaned = <<>> THEN <<>>
              ELSE <<[code_block |-> cleaned, file |-> path]>>)
             \o Base_blocks(Tail(matches), path)

(***************************************************************************)
(* The documents the parsers are run on                                    *)
(***************************************************************************)
TitleLine(n, t) == <<H2, SP, n, SP, t>>
KeyValue(key, value) == <<BOLD, key, COLON, BOLD, SP>> \o value
Label(key) == <<BOLD, key, COLON, BOLD>>
Header(name) == <<H3, SP, name>>
Fenced(body) == <<<<FENCE>>, body, <<FENCE>>>>
\* a fenced block whose opening fence is followed by tag
Tagged(tag, body) == <<<<FENCE>> \o tag, body, <<FENCE>>>>

\* the menu of blocks; a block is a sequence of lines
Blocks ==
    { <<TitleLine("1.", "T")>>,
      <<TitleLine("1.", "T"), KeyValue("Command", <<BT, "x", BT>>)>>,
      <<TitleLine("1.", "T"), KeyValue("Command", <<BT, "x", BT>>),
        KeyValue("Return Code", <<"2">>)>>,
      <<TitleLine("2.", "U"), KeyValue("Command", <<BT, "x", BT>>),
        KeyValue("Return Code", <<"254">>)>>,
      <<<<RULE>>>>,
      <<Label("Output")>> \o Fenced(<<"a">>),
      <<Label("Error Output")>> \o Fenced(<<"b">>),
      <<Header("Error Output")>> \o Fenced(<<"a">>),
      Fenced(<<"b">>),
      <<Header("Command"), <<BT, "x", BT>>>>,
      <<Header("Command"), <<BT, SP, BT>>>>,
      <<Header("Metadata"), <<DASH, SP>> \o KeyValue("Error", <<"e">>)>>,
      <<Header("Metadata"),
        <<DASH, SP>> \o KeyValue("Status", <<CROSS, SP, "Failed">>)>>,
      <<Header("Metadata"), <<DASH, SP>> \o KeyValue("Status", <<"Custom">>)>>,
      <<Header("Command")>> \o Fenced(<<"x">>)
          \o <<Header("Output")>> \o Fenced(<<"a">>),
      <<<<RULE>>, TitleLine("2.", "U"), Header("Command"), <<BT, "a", BT>>>>,
      Tagged(<<"bash">>, <<"x">>),
      Tagged(<<"python">>, <<"a">>),
      Tagged(<<"python", SP>>, <<"a">>),
      <<<<"e">>>> }

MaxBlocks == 3

\* the text of a sequence of blocks: every line ends with a newline
RECURSIVE Text(_)
Text(lines) ==
    IF lines = <<>> THEN <<>> ELSE lines[1] \o <<NL>> \o Text(Tail(lines))

RECURSIVE Flatten(_)
Flatten(blocks) ==
    IF blocks = <<>> THEN <<>> ELSE blocks[1] \o Flatten(Tail(blocks))

Documents ==
    { Text(Flatten(bs)) : bs \in UNION { [1..n -> Blocks] : n \in 0..MaxBlocks } }

(***************************************************************************)
(* The section loops and the entry points                                  *)
(***************************************************************************)
Impls == {"main", "refactored", "handler", "legacy", "codeblock"}

\* index after the run of dashes that starts at i
RECURSIVE skip_dashes(_, _)
skip_dashes(s, i) ==
    IF i <= Len(s) /\ s[i] \in Dashes THEN skip_dashes(s, i + 1) ELSE i

\* re.split(r"\r?\n-{3,}\r?\n", content)
RECURSIVE rule_line_split(_, _, _)
rule_line_split(s, from_i, i) ==
    IF i > Len(s) THEN <<SubSeq(s, from_i, Len(s))>>
    ELSE LET e == skip_dashes(s, i + 1)
         IN  IF s[i] = NL /\ i + 1 <= Len(s) /\ s[i + 1] = RULE
                /\ e <= Len(s) /\ s[e] = NL
             THEN <<SubSeq(s, from_i, i - 1)>> \o rule_line_split(s, e + 1, e + 1)
             ELSE rule_line_split(s, from_i, i + 1)

Todo_split_into_sections(content) ==
    LET parts == rule_line_split(content, 1, 1)
    IN  [k \in 1..Len(parts) |-> strip(parts[k], WhiteSpace)]

\* the sections the TODO-format loop of each parser iterates over
split_sections(i, content) ==
    IF i = "handler" THEN Todo_split_into_sections(content)
    ELSE split(content, RULE)

\* the command a titled section starts as
create_command(i, title, file_path) ==
    IF i = "main" THEN Main_create_command(title, file_path)
    ELSE IF i = "refactored" THEN Refactored_create_command(title, file_path)
    ELSE IF i = "legacy" THEN Legacy_current_cmd(title, file_path)
    ELSE CommandData(title, <<>>, file_path, <<"shell">>, <<"Failed">>, 1, None, <<>>)

\* the lines the section loop iterates over, given section.split("\n")
section_lines(i, lines) ==
    LET section_content == strip(join(NL, Tail(lines)), WhiteSpace)
    IN  IF i = "handler" THEN Tail(lines)
        ELSE IF i = "refactored" /\ section_content = <<>> THEN <<>>
        ELSE split(section_content, NL)

process_line(i, state, raw) ==
    IF i = "main" THEN Main_process_line(state, raw)
    ELSE IF i = "refactored" THEN Refactored_process_line(state, raw)
    ELSE IF i = "handler" THEN Todo_parse_section_line(state, raw)
    ELSE Legacy_process_line(state, raw)

\* what follows the loop over the lines of a section
end_of_lines(i, state) ==
    IF i = "refactored" THEN Refactored_finalize_section(state)
    ELSE IF i = "handler" THEN Todo_parse_section_end(state)
    ELSE state

\* the list after the section's command has been offered to it
append_command(i, cmds, command) ==
    IF i = "legacy" THEN Legacy_finalize_command(cmds, command)
    ELSE IF command.command # <<>> THEN Append(cmds, command)
    ELSE cmds

\* the whole loop over the lines of one section
RECURSIVE run_lines(_, _, _, _)
run_lines(i, state, lines, n) ==
    IF n > Len(lines) THEN end_of_lines(i, state)
    ELSE run_lines(i, process_line(i, state, lines[n]), lines, n + 1)

Returned(value) == [kind |-> "return", value |-> value, exc |-> ""]
Raised(exc) == [kind |-> "raise", value |-> <<>>, exc |-> exc]
NoResult == [kind |-> "none", value |-> <<>>, exc |-> ""]

\* _parse_todo_format over the sections from index k on: the commands, or
\* the exception the handler raises at a section without title
RECURSIVE parse_todo_format(_, _, _, _, _)
parse_todo_format(i, secs, k, file_path, cmds) ==
    IF k > Len(secs) THEN Returned(cmds)
    ELSE LET section == strip(secs[k], WhiteSpace)
             lines == split(section, NL)
             m == title_pattern(strip(lines[1], WhiteSpace))
             command == create_command(i, strip(m.g1, WhiteSpace), file_path)
             done == run_lines(i, ParserState(command), section_lines(i, lines), 1)
         IN  IF section = <<>> THEN parse_todo_format(i, secs, k + 1, file_path, cmds)
             ELSE IF ~m.ok
             THEN IF i = "handler" THEN Raised("InvalidCommandError")
                  ELSE parse_todo_format(i, secs, k + 1, file_path, cmds)
             ELSE parse_todo_format(i, secs, k + 1, file_path,
                                    append_command(i, cmds, done.command))

\* a fallback that would take a text without a fenced block as one command
parse_code_blocks_whole(i, content, file_path) ==
    LET found == IF i = "main" THEN Main_parse_code_blocks(content, file_path)
                 ELSE IF i = "refactored"
                 THEN Refactored_parse_code_blocks(content, file_path)
                 ELSE IF i = "legacy" THEN Legacy_parse_content(content, file_path)
                 ELSE <<>>
    IN  IF found # <<>> \/ strip(content, WhiteSpace) = <<>> \/ i \notin {"main", "refactored"}
        THEN found
        ELSE <<[create_command(i, FallbackTitle, file_path)
                    EXCEPT !.command = strip(content, WhiteSpace)]>>

\* the second stage of each entry point, taken when the first gave nothing
parse_code_blocks(i, content, file_path) ==
    IF i = "main" THEN Main_parse_code_blocks(content, file_path)
    ELSE IF i = "refactored" THEN Refactored_parse_code_blocks(content, file_path)
    ELSE IF i = "legacy" THEN Legacy_parse_content(content, file_path)
    ELSE <<>>

\* a parse that would append the fallback's commands to the TODO-format ones
parse_result_merged(todo_commands, fallback_commands) ==
    todo_commands \o fallback_commands

\* parse(): the TODO-format commands if there are any, else the fallback's
parse_result(todo_commands, fallback_commands) ==
    IF todo_commands # <<>> THEN todo_commands ELSE fallback_commands

(***************************************************************************)
(* get_statistics                                                          *)
(***************************************************************************)
\* d[k] = d.get(k, 0) + 1
count_up(d, k) == dict_set(d, k, (IF dict_has(d, k) THEN dict_get(d, k) ELSE 0) + 1)

\* success_rate is kept as the fraction <<numerator, denominator>>
Statistics(total, failed, error_codes, command_types) ==
    [total_commands |-> total, failed_commands |-> failed,
     success_rate |-> IF total > 0 THEN <<total - failed, total>> ELSE <<1, 1>>,
     error_codes |-> error_codes, command_types |-> command_types]

EmptyStatistics == Statistics(0, 0, <<>>, <<>>)

Fields(cmd) == DOMAIN cmd

\* cmd.get("exit_code", 0) of a dict of the legacy parser: none of the
\* dicts it builds has that key unless a section put it there
Legacy_exit_code(cmd) ==
    IF "extra" \in Fields(cmd) /\ dict_has(cmd.extra, <<"exit_code">>)
    THEN dict_get(cmd.extra, <<"exit_code">>)
    ELSE 0

\* cmd.get("metadata", {}).get("command_type", "unknown")
Legacy_cmd_type(cmd) ==
    IF "metadata" \in Fields(cmd) /\ dict_has(cmd.metadata.data, <<"command_type">>)
    THEN dict_get(cmd.metadata.data, <<"command_type">>)
    ELSE <<"unknown">>

RECURSIVE Legacy_count(_, _, _, _)
Legacy_count(cmds, n, error_codes, command_types) ==
    IF n > Len(cmds) THEN <<error_codes, command_types>>
    ELSE Legacy_count(cmds, n + 1,
                      count_up(error_codes, Legacy_exit_code(cmds[n])),
                      count_up(command_types, Legacy_cmd_type(cmds[n])))

Legacy_get_statistics(cmds) ==
    LET total == Len(cmds)
        failed == Cardinality({n \in 1..total : Legacy_exit_code(cmds[n]) # 0})
        counts == Legacy_count(cmds, 1, <<>>, <<>>)
    IN  IF cmds = <<>> THEN Returned(EmptyStatistics)
        ELSE IF \E n \in 1..total :
                   "metadata" \in Fields(cmds[n]) /\ ~cmds[n].metadata.is_dict
        THEN Raised("AttributeError")
        ELSE Returned(Statistics(total, failed, counts[1], counts[2]))

\* the refactored get_statistics calls cmd.get(...), which the CommandData
\* objects that parse returns do not have
Refactored_get_statistics(cmds) ==
    IF cmds = <<>> THEN Returned(EmptyStatistics)
    ELSE Raised("AttributeError")

get_statistics(i, cmds) ==
    IF i = "legacy" THEN Legacy_get_statistics(cmds)
    ELSE Refactored_get_statistics(cmds)

(***************************************************************************)
(* parse_file                                                              *)
(***************************************************************************)
PathKinds == {"missing", "directory", "file"}
FilePath == <<"TODO.md">>
\* str(path.absolute())
absolute(path) == <<"/cwd/">> \o path

\* a check that would only look at path.exists()
not_found_exists_only(kind) == kind = "missing"

\* not path.exists() or not path.is_file()
not_found(kind) == kind # "file"

\* the single-element list the legacy parse_file returns for an exception
Legacy_error_result(file_path, exc) ==
    <<[error |-> <<"Failed to parse file ">> \o file_path \o <<exc>>,
       file |-> file_path, commands |-> <<>>]>>

\* BaseMarkdownParser.parse_file after the text has been read
Base_parse_file_blocks(content, file_path) ==
    Base_blocks(finditer("base", content, 1), absolute(file_path))

(***************************************************************************)
(* The state machine: one call of an entry point, step by step             *)
(***************************************************************************)
VARIABLES impl, op, path_kind, readable, content, file_path, pc, sections,
          sec_idx, lines, line_idx, state, commands, result, reads, stats

\* one parser instance used by several parse calls: the two attributes parse
\* stores on the instance, the calls, and whether the calls may overlap
VARIABLES self_content, self_file_path, calls, concurrent

call_vars == <<impl, op, path_kind, readable, content, file_path, pc, sections,
               sec_idx, lines, line_idx, state, commands, result, reads, stats>>

instance_vars == <<self_content, self_file_path, calls, concurrent>>

\* the identity of the objects: of the command under construction, of the
\* commands in the list, and the next identity a constructor gives out
VARIABLES cur_ref, refs, next_ref

heap_vars == <<cur_ref, refs, next_ref>>

vars == <<call_vars, instance_vars, heap_vars>>

\* a parser that would keep one command object and fill it again
reused_object(next) == 1

\* CommandData(...) / a dict display: the object created is a new one, and
\* so are the Metadata, ErrorOutput and dict objects created with it
new_object(next) == next

\* a write to the object id is seen through every entry of the list that
\* holds this object
store(cmds, ids, id, value) ==
    [n \in 1..Len(cmds) |-> IF ids[n] = id THEN value ELSE cmds[n]]

\* parse(content) of the four classes that have it, and parse_file(path)
\* of the two that have it (main.py inherits BaseMarkdownParser.parse_file)
Calls ==
    { <<i, "parse">> : i \in {"main", "refactored", "handler", "codeblock"} }
    \cup { <<i, "parse_file">> : i \in {"main", "legacy"} }

NoCommand == [title |-> <<>>]

Init ==
    /\ \E c \in Calls : impl = c[1] /\ op = c[2]
    /\ path_kind \in (IF op = "parse" THEN {"none"} ELSE PathKinds)
    /\ readable \in (IF path_kind = "file" THEN BOOLEAN ELSE {path_kind = "none"})
    /\ content \in (IF readable THEN Documents ELSE {<<>>})
    /\ file_path = IF op = "parse" THEN <<>> ELSE FilePath
    /\ pc = "call"
    /\ sections = <<>>
    /\ sec_idx = 1
    /\ lines = <<>>
    /\ line_idx = 1
    /\ state = ParserState(NoCommand)
    /\ commands = <<>>
    /\ result = NoResult
    /\ reads = 0
    /\ stats = NoResult
    /\ cur_ref = 0
    /\ refs = <<>>
    /\ next_ref = 1
    /\ self_content = <<>>
    /\ self_file_path = <<>>
    /\ calls = <<>>
    /\ concurrent = FALSE

\* parse(content): store the text and split it into sections
Parse ==
    /\ pc = "call" /\ op = "parse" /\ impl # "codeblock"
    /\ sections' = split_sections(impl, content)
    /\ sec_idx' = 1
    /\ pc' = "section"
    /\ UNCHANGED heap_vars
    /\ UNCHANGED instance_vars
    /\ UNCHANGED <<impl, op, path_kind, readable, content, file_path, lines,
                   line_idx, state, commands, result, reads, stats>>

\* CodeBlockHandler.parse(content): one pass over the fenced blocks
ParseCodeBlocks ==
    /\ pc = "call" /\ op = "parse" /\ impl = "codeblock"
    /\ result' = Returned(CodeBlock_parse(content, file_path))
    /\ pc' = "done"
    /\ UNCHANGED heap_vars
    /\ UNCHANGED instance_vars
    /\ UNCHANGED <<impl, op, path_kind, readable, content, file_path, sections,
                   sec_idx, lines, line_idx, state, commands, reads, stats>>

\* parse_file(path): the check of the path
ParseFile ==
    /\ pc = "call" /\ op = "parse_file"
    /\ IF not_found(path_kind)
       THEN result' = Raised("FileNotFoundError") /\ pc' = "done"
       ELSE result' = result /\ pc' = "read"
    /\ UNCHANGED heap_vars
    /\ UNCHANGED instance_vars
    /\ UNCHANGED <<impl, op, path_kind, readable, content, file_path, sections,
                   sec_idx, lines, line_idx, state, commands, reads, stats>>

\* path.read_text(encoding="utf-8") and what each parse_file does next: the
\* base class returns the fenced blocks, the legacy parser starts its
\* TODO-format stage and turns an exception into its error result
ReadText ==
    /\ pc = "read"
    /\ reads' = reads + 1
    /\ IF ~readable
       THEN /\ result' = IF impl = "legacy"
                         THEN Returned(Legacy_error_result(file_path, "UnicodeDecodeError"))
                         ELSE Raised("UnicodeDecodeError")
            /\ pc' = "done"
            /\ UNCHANGED <<sections, sec_idx>>
       ELSE IF impl = "legacy"
       THEN /\ sections' = split_sections(impl, content)
            /\ sec_idx' = 1
            /\ pc' = "section"
            /\ result' = result
       ELSE /\ result' = Returned(Base_parse_file_blocks(content, file_path))
            /\ pc' = "done"
            /\ UNCHANGED <<sections, sec_idx>>
    /\ UNCHANGED heap_vars
    /\ UNCHANGED instance_vars
    /\ UNCHANGED <<impl, op, path_kind, readable, content, file_path, lines,
                   line_idx, state, commands, stats>>

\* the head of the loop over the sections: skip an empty section, skip (or,
\* in the handler, raise at) a section whose first line is no title, else
\* create the command and enter the loop over the section's lines
NextSection ==
    /\ pc = "section" /\ sec_idx <= Len(sections)
    /\ LET section == strip(sections[sec_idx], WhiteSpace)
           ls == split(section, NL)
           m == title_pattern(strip(ls[1], WhiteSpace))
       IN  IF section = <<>> \/ (~m.ok /\ impl # "handler")
           THEN /\ sec_idx' = sec_idx + 1
                /\ UNCHANGED <<pc, lines, line_idx, state, result, commands>>
                /\ UNCHANGED heap_vars
           ELSE IF ~m.ok
           THEN /\ result' = Raised("InvalidCommandError")
                /\ pc' = "done"
                /\ UNCHANGED <<sec_idx, lines, line_idx, state, commands>>
                /\ UNCHANGED heap_vars
           ELSE /\ state' = ParserState(create_command(impl,
                                strip(m.g1, WhiteSpace), file_path))
                /\ cur_ref' = new_object(next_ref)
                /\ next_ref' = next_ref + 1
                /\ commands' = store(commands, refs, cur_ref', state'.command)
                /\ lines' = section_lines(impl, ls)
                /\ line_idx' = 1
                /\ pc' = "line"
                /\ UNCHANGED <<sec_idx, result, refs>>
    /\ UNCHANGED instance_vars
    /\ UNCHANGED <<impl, op, path_kind, readable, content, file_path, sections,
                   reads, stats>>

\* one iteration of the loop over the lines of the section
ProcessLine ==
    /\ pc = "line" /\ line_idx <= Len(lines)
    /\ state' = process_line(impl, state, lines[line_idx])
    /\ commands' = store(commands, refs, cur_ref, state'.command)
    /\ line_idx' = line_idx + 1
    /\ UNCHANGED heap_vars
    /\ UNCHANGED instance_vars
    /\ UNCHANGED <<impl, op, path_kind, readable, content, file_path, pc,
                   sections, sec_idx, lines, result, reads, stats>>

\* the end of the section: what follows the loop over its lines, and the
\* append of its command to the list
EndSection ==
    /\ pc = "line" /\ line_idx > Len(lines)
    /\ state' = end_of_lines(impl, state)
    /\ commands' = append_command(impl,
                        store(commands, refs, cur_ref, state'.command),
                        state'.command)
    /\ refs' = IF Len(commands') > Len(commands) THEN Append(refs, cur_ref) ELSE refs
    /\ sec_idx' = sec_idx + 1
    /\ pc' = "section"
    /\ UNCHANGED <<cur_ref, next_ref>>
    /\ UNCHANGED instance_vars
    /\ UNCHANGED <<impl, op, path_kind, readable, content, file_path, sections,
                   lines, line_idx, result, reads, stats>>

\* the end of the TODO-format stage: return its commands, or the fallback's
\* when it has none; the handler has no fallback
Return ==
    /\ pc = "section" /\ sec_idx > Len(sections)
    /\ result' = Returned(parse_result(commands,
                              parse_code_blocks(impl, content, file_path)))
    /\ pc' = "done"
    /\ UNCHANGED heap_vars
    /\ UNCHANGED instance_vars
    /\ UNCHANGED <<impl, op, path_kind, readable, content, file_path, sections,
                   sec_idx, lines, line_idx, state, commands, reads, stats>>

\* get_statistics(commands) on the list an entry point returned
GetStatistics ==
    /\ pc = "done" /\ result.kind = "return"
    /\ impl \in {"refactored", "legacy"}
    /\ stats' = get_statistics(impl, result.value)
    /\ pc' = "stats"
    /\ UNCHANGED heap_vars
    /\ UNCHANGED instance_vars
    /\ UNCHANGED <<impl, op, path_kind, readable, content, file_path, sections,
                   sec_idx, lines, line_idx, state, commands, result, reads>>

Next ==
    \/ Parse
    \/ ParseCodeBlocks
    \/ ParseFile
    \/ ReadText
    \/ NextSection
    \/ ProcessLine
    \/ EndSection
    \/ Return
    \/ GetStatistics

Spec == Init /\ [][Next]_vars

(***************************************************************************)
(* One titled section, built from groups of lines                          *)
(***************************************************************************)
\* the decorated statuses of the fixed vocabulary, and a plain one
StatusValues ==
    << <<CROSS, SP, "Failed">>, <<CHECK, SP, "Passed">>,
       <<WARN, VS16, SP, "Warning">>, <<WATCH, VS16, SP, "Timeout">>,
       <<"Custom">> >>

SectionGroups ==
    { <<Header("Output"), <<FENCE>>, <<"a">>>>,
      <<Header("Error Output"), <<FENCE>>, <<"b">>>>,
      <<Header("Output"), <<FENCE>>, Header("Command"),
        KeyValue("Status", <<"Custom">>), <<FENCE>>>>,
      <<Header("Output"), <<FENCE>>, <<FENCE, "bash">>, <<"a">>, <<FENCE>>>>,
      <<Header("Command"), Header("Output"), Header("Error Output"),
        Header("stderr"), Header("Suggested Solution"), Header("Metadata"),
        Header("Notes")>>,
      <<Header("Notes"), <<"e">>, KeyValue("Status", <<"Custom">>)>>
          \o Fenced(<<"a">>),
      <<Header("Output"), <<"a">>, <<"b">>>>,
      <<Header("Error Output"), <<"a">>, <<"b">>>>,
      <<Header("Metadata"), KeyValue("Return Code", <<"2">>),
        KeyValue("Execution Time", <<"1.47", "s">>),
        KeyValue("Return Code", <<"abc">>),
        KeyValue("Execution Time", <<"abc">>)>>,
      <<KeyValue("Command", <<BT, "a", SP, RULE, SP, "b", BT>>),
        KeyValue("Return Code", <<"2">>)>>,
      <<Header("Metadata"), KeyValue("Status", StatusValues[1]),
        KeyValue("Status", StatusValues[2]), KeyValue("Status", StatusValues[5])>>,
      <<Header("Metadata"), KeyValue("Status", StatusValues[3]),
        KeyValue("Status", StatusValues[4])>>,
      Fenced(<<"a", SP, BT, "x", BT>>),
      Fenced(<<"a">>) \o <<Header("Output")>> \o Fenced(<<"b">>),
      <<<<FENCE, "bash", SP, "x">>, <<"a">>, <<FENCE>>, <<"e">>>>
          \o Tagged(<<"python">>, <<"b">>) }

MaxGroups == 2

SectionDocuments ==
    { Text(<<TitleLine("1.", "T")>> \o Flatten(gs)) :
        gs \in UNION { [1..n -> SectionGroups] : n \in 0..MaxGroups } }

\* the entry points of Calls, called with a document of one titled section
SectionInit ==
    /\ \E c \in Calls : impl = c[1] /\ op = c[2]
    /\ path_kind \in (IF op = "parse" THEN {"none"} ELSE PathKinds)
    /\ readable \in (IF path_kind = "file" THEN BOOLEAN ELSE {path_kind = "none"})
    /\ content \in (IF readable THEN SectionDocuments ELSE {<<>>})
    /\ file_path = IF op = "parse" THEN <<>> ELSE FilePath
    /\ pc = "call"
    /\ sections = <<>>
    /\ sec_idx = 1
    /\ lines = <<>>
    /\ line_idx = 1
    /\ state = ParserState(NoCommand)
    /\ commands = <<>>
    /\ result = NoResult
    /\ reads = 0
    /\ stats = NoResult
    /\ cur_ref = 0
    /\ refs = <<>>
    /\ next_ref = 1
    /\ self_content = <<>>
    /\ self_file_path = <<>>
    /\ calls = <<>>
    /\ concurrent = FALSE

SectionSpec == SectionInit /\ [][Next]_vars

(***************************************************************************)
(* Several parse calls on one MarkdownParser instance                      *)
(***************************************************************************)
\* parse(content, file_path=None) called without a path
NoPath == <<"None">>
InstancePaths == {NoPath, FilePath, <<"b.md">>}

InstanceDocuments ==
    { <<>>,
      Text(<<TitleLine("1.", "T"), KeyValue("Command", <<BT, "x", BT>>)>>),
      Text(<<TitleLine("1.", "T"), KeyValue("Command", <<BT, "x", BT>>),
             <<RULE>>, TitleLine("2.", "U"),
             KeyValue("Command", <<BT, "a", BT>>)>>),
      Text(<<TitleLine("1.", "T")>> \o Tagged(<<"python">>, <<"a">>)) }

\* calls that overlap, and calls that follow one another
ConcurrentCalls == 2
SequentialCalls == 3

\* an assignment that would keep the attribute when no path is passed
stored_path_kept(previous, path) ==
    IF path \in {NoPath, <<>>} THEN previous ELSE path

\* self.file_path = file_path or "": the value that replaces previous
stored_path(previous, path) ==
    IF path \in {NoPath, <<>>} THEN <<>> ELSE path

Call(c, p) ==
    [content |-> c, file_path |-> p, pc |-> "content", sections |-> <<>>,
     k |-> 1, commands |-> <<>>, result |-> NoResult]

InstanceInit ==
    /\ impl \in {"main", "refactored"}
    /\ op = "parse"
    /\ path_kind = "none"
    /\ readable = TRUE
    /\ content = <<>>
    /\ file_path = <<>>
    /\ pc = "call"
    /\ sections = <<>>
    /\ sec_idx = 1
    /\ lines = <<>>
    /\ line_idx = 1
    /\ state = ParserState(NoCommand)
    /\ commands = <<>>
    /\ result = NoResult
    /\ reads = 0
    /\ stats = NoResult
    /\ cur_ref = 0
    /\ refs = <<>>
    /\ next_ref = 1
    /\ self_content = <<>>
    /\ self_file_path = <<>>
    /\ concurrent \in BOOLEAN
    /\ calls \in [1..(IF concurrent THEN ConcurrentCalls ELSE SequentialCalls)
                  -> { Call(c, p) : c \in InstanceDocuments, p \in InstancePaths }]

Idle(t) == calls[t].pc \in {"content", "done"}

\* self.content = content; calls that follow one another start when no other
\* call is under way
StoreContent(t) ==
    /\ calls[t].pc = "content"
    /\ concurrent \/ \A u \in DOMAIN calls : Idle(u)
    /\ self_content' = calls[t].content
    /\ calls' = [calls EXCEPT ![t].pc = "path"]
    /\ UNCHANGED <<self_file_path, concurrent>>
    /\ UNCHANGED call_vars
    /\ UNCHANGED heap_vars

\* self.file_path = file_path or ""
StorePath(t) ==
    /\ calls[t].pc = "path"
    /\ self_file_path' = stored_path(self_file_path, calls[t].file_path)
    /\ calls' = [calls EXCEPT ![t].pc = "split"]
    /\ UNCHANGED <<self_content, concurrent>>
    /\ UNCHANGED call_vars
    /\ UNCHANGED heap_vars

\* sections = self.content.split("---") at the head of _parse_todo_format
SplitContent(t) ==
    /\ calls[t].pc = "split"
    /\ calls' = [calls EXCEPT ![t].sections = split_sections(impl, self_content),
                              ![t].k = 1,
                              ![t].pc = "section"]
    /\ UNCHANGED <<self_content, self_file_path, concurrent>>
    /\ UNCHANGED call_vars
    /\ UNCHANGED heap_vars

\* one iteration of the loop over the sections: _create_command reads
\* self.file_path when the section has a title
ParseSection(t) ==
    /\ calls[t].pc = "section" /\ calls[t].k <= Len(calls[t].sections)
    /\ calls' = [calls EXCEPT
            ![t].commands = parse_todo_format(impl,
                                <<calls[t].sections[calls[t].k]>>, 1,
                                self_file_path, @).value,
            ![t].k = @ + 1]
    /\ UNCHANGED <<self_content, self_file_path, concurrent>>
    /\ UNCHANGED call_vars
    /\ UNCHANGED heap_vars

\* the end of parse: the TODO-format commands, or _parse_code_blocks over
\* self.content with self.file_path as source
ReturnCommands(t) ==
    /\ calls[t].pc = "section" /\ calls[t].k > Len(calls[t].sections)
    /\ calls' = [calls EXCEPT
            ![t].result = Returned(parse_result(calls[t].commands,
                              parse_code_blocks(impl, self_content, self_file_path))),
            ![t].pc = "done"]
    /\ UNCHANGED <<self_content, self_file_path, concurrent>>
    /\ UNCHANGED call_vars
    /\ UNCHANGED heap_vars

InstanceNext ==
    \E t \in DOMAIN calls :
        \/ StoreContent(t)
        \/ StorePath(t)
        \/ SplitContent(t)
        \/ ParseSection(t)
        \/ ReturnCommands(t)

InstanceSpec == InstanceInit /\ [][InstanceNext]_vars

\* what parse(content, file_path) returns when nothing else runs
parse_alone(i, c, p) ==
    LET path == stored_path(<<>>, p)
    IN  Returned(parse_result(
            parse_todo_format(i, split_sections(i, c), 1, path, <<>>).value,
            parse_code_blocks(i, c, path)))

(***************************************************************************)
(* Properties                                                              *)
(***************************************************************************)
\* the text of a record's error output: the legacy dicts hold a string, the
\* CommandData objects an optional ErrorOutput
error_text(cmd) ==
    IF "extra" \in Fields(cmd) THEN cmd.error_output ELSE cmd.error_output.content

IsCommandRecord(r) == "command" \in Fields(r) /\ "return_code" \in Fields(r)

Finished == pc \in {"done", "stats"}

\* C1: every record in the list the TODO-format stage of main.py and of the
\* legacy parser builds has a command that is non-empty after trimming
\* white space.
C1_NoEmptyCommand ==
    impl \in {"main", "legacy"} =>
        \A n \in 1..Len(commands) : strip(commands[n].command, WhiteSpace) # <<>>

\* the report layout of the tests: title, Command line, Output label and
\* fenced block, Error Output label and fenced block
TestLayout ==
    Text(<<TitleLine("1.", "T"), KeyValue("Command", <<BT, "x", BT>>),
           Label("Output")>> \o Fenced(<<"a">>)
         \o <<Label("Error Output")>> \o Fenced(<<"b">>))

\* C2: for a section in the report layout of the tests, parse of the
\* refactored MarkdownParser and of TodoFormatHandler return exactly one
\* record, with command x, output the first fenced block and error_output
\* the second.
C2_TestLayout ==
    (op = "parse" /\ impl \in {"refactored", "handler"} /\ content = TestLayout
     /\ Finished)
    => /\ result.kind = "return"
       /\ Len(result.value) = 1
       /\ result.value[1].command = <<"x">>
       /\ result.value[1].output = <<"a">>
       /\ error_text(result.value[1]) = <<"b">>

\* two sections separated by a rule, with Return Code 2 and 254
TwoSections ==
    Text(<<TitleLine("1.", "T"), KeyValue("Command", <<BT, "x", BT>>),
           KeyValue("Return Code", <<"2">>), <<RULE>>,
           TitleLine("2.", "U"), KeyValue("Command", <<BT, "x", BT>>),
           KeyValue("Return Code", <<"254">>)>>)

\* C3: in MarkdownParser.parse a Return Code key/value line sets the typed
\* field return_code and is not stored in metadata, so the document of two
\* sections with Return Code 2 and 254 yields exactly two records with
\* return_code 2 and 254 in that order.
C3_TypedFields ==
    (op = "parse" /\ impl \in {"main", "refactored"} /\ content = TwoSections
     /\ Finished)
    => /\ result.kind = "return"
       /\ Len(result.value) = 2
       /\ result.value[1].return_code = 2
       /\ result.value[2].return_code = 254
       /\ \A n \in 1..2 : ~dict_has(result.value[n].metadata, <<"return code">>)

\* one section with two fenced blocks under an Error Output header
TwoErrorBlocks ==
    Text(<<TitleLine("1.", "T"), Header("Error Output")>> \o Fenced(<<"a">>)
         \o Fenced(<<"b">>))

\* C4: when a section holds two fenced blocks while the subsection is
\* error_output, the section's final error_output is the blocks joined by
\* one newline: bodies a and b give exactly "a\nb".
C4_ErrorBlocksJoined ==
    (impl \in {"main", "refactored", "legacy"} /\ content = TwoErrorBlocks
     /\ pc = "section" /\ sec_idx > Len(sections))
    => error_text(state.command) = <<"a", NL, "b">>

\* C5: within one section every step that changes error_output extends it:
\* the value before the step is a prefix of the value after it.
C5_ErrorOutputGrows ==
    [][pc = "line" => IsPrefix(error_text(state.command), error_text(state'.command))]_vars

\* C6: MarkdownParser.parse returns exactly the records of the TODO-format
\* stage, in section order, when there are any, and otherwise exactly the
\* records of the code-block fallback, in block order; the two are never
\* mixed.
C6_TwoStage ==
    (op = "parse" /\ impl \in {"main", "refactored"} /\ Finished)
    => LET todo == parse_todo_format(impl, split_sections(impl, content), 1,
                                     file_path, <<>>).value
           fallback == parse_code_blocks(impl, content, file_path)
       IN  /\ result.kind = "return"
           /\ todo # <<>> => result.value = todo
           /\ todo = <<>> => result.value = fallback

\* a numbered heading is present, no section yields a command, and the
\* fallback's records are returned
C6_Witness ==
    /\ op = "parse" /\ impl \in {"main", "refactored"} /\ pc = "done"
    /\ IsPrefix(TitleLine("1.", "T"), content)
    /\ commands = <<>>
    /\ result.value # <<>>

\* C7: parse_file on a path that does not exist or is no regular file
\* raises FileNotFoundError before any read or parse is attempted, and never
\* another exception or a list of records.
C7_FileNotFound ==
    (op = "parse_file" /\ path_kind # "file")
    => /\ reads = 0
       /\ sections = <<>> /\ commands = <<>>
       /\ pc # "call" => result = Raised("FileNotFoundError")

C7_Witness ==
    op = "parse_file" /\ path_kind = "directory" /\ pc = "done"

\* C8: parse_file on an existing regular file never propagates an exception:
\* when the read fails it returns a list of exactly one element that carries
\* an error description and the file path.
C8_NoPropagation ==
    (op = "parse_file" /\ path_kind = "file" /\ Finished)
    => /\ result.kind = "return"
       /\ ~readable => /\ Len(result.value) = 1
                       /\ "error" \in Fields(result.value[1])
                       /\ result.value[1].file = file_path

\* C9: for an existing file parse_file returns the same ordered list of
\* command records as parse applied to the text of the file.
C9_ParseFileIsParse ==
    (op = "parse_file" /\ impl = "main" /\ path_kind = "file" /\ readable
     /\ Finished)
    => LET todo == parse_todo_format(impl, split_sections(impl, content), 1,
                                     absolute(file_path), <<>>).value
           parsed == parse_result(todo,
                         parse_code_blocks(impl, content, absolute(file_path)))
       IN  /\ result.kind = "return"
           /\ Len(result.value) = Len(parsed)
           /\ \A n \in 1..Len(parsed) :
                 IsCommandRecord(result.value[n]) /\ result.value[n] = parsed[n]

\* C10: get_statistics on a list of records of the parser reports total =
\* number of records, failed = number of records with a non-zero return
\* code, a histogram of the return codes, a histogram of the command types
\* and success_rate = (total - failed) / total.
C10_Statistics ==
    (pc = "stats" /\ \A n \in 1..Len(result.value) : IsCommandRecord(result.value[n]))
    => LET cmds == result.value
           total == Len(cmds)
           failed == Cardinality({n \in 1..total : cmds[n].return_code # 0})
       IN  /\ stats.kind = "return"
           /\ stats.value.total_commands = total
           /\ stats.value.failed_commands = failed
           /\ stats.value.success_rate =
                 IF total > 0 THEN <<total - failed, total>> ELSE <<1, 1>>
           /\ \A n \in 1..total :
                 /\ dict_has(stats.value.error_codes, cmds[n].return_code)
                 /\ dict_get(stats.value.error_codes, cmds[n].return_code) =
                       Cardinality({k \in 1..total :
                                       cmds[k].return_code = cmds[n].return_code})
                 /\ dict_has(stats.value.command_types, cmds[n].command_type)
                 /\ dict_get(stats.value.command_types, cmds[n].command_type) =
                       Cardinality({k \in 1..total :
                                       cmds[k].command_type = cmds[n].command_type})


\* C11: two parse calls that overlap on one MarkdownParser instance, with
\* different contents and different file paths, each return exactly the
\* records of their own content with their own source path, under every
\* interleaving.
C11_CallsIsolated ==
    (concurrent /\ calls[1].content # calls[2].content
     /\ calls[1].file_path # calls[2].file_path)
    => \A t \in DOMAIN calls :
           calls[t].pc = "done"
           => calls[t].result = parse_alone(impl, calls[t].content, calls[t].file_path)

\* C12: on one instance whose calls follow one another, the first and the
\* last call, given the same content and path, return equal ordered record
\* lists whatever the call between them parsed.
C12_Deterministic ==
    (~concurrent /\ calls[1].pc = "done" /\ calls[3].pc = "done"
     /\ calls[1].content = calls[3].content
     /\ calls[1].file_path = calls[3].file_path)
    => calls[1].result = calls[3].result

\* the same content parsed before and after a call with another content and
\* another path, with records returned
C12_Witness ==
    /\ ~concurrent
    /\ \A t \in 1..3 : calls[t].pc = "done"
    /\ calls[1].content = calls[3].content
    /\ calls[1].file_path = calls[3].file_path
    /\ calls[2].content # calls[1].content
    /\ calls[2].file_path \notin {NoPath, calls[1].file_path}
    /\ calls[1].file_path = NoPath
    /\ calls[1].result.value # <<>>
    /\ calls[2].result.value # <<>>

\* a bash block and then a python block, no numbered heading
BashThenPython == Text(Tagged(<<"bash">>, <<"x">>) \o Tagged(<<"python">>, <<"a">>))

\* what follows the opening fence on its line
FenceTags == {<<>>, <<"bash">>, <<"python">>, <<"python", SP>>}

\* C13: in the fallback of MarkdownParser.parse the command_type of a record
\* is the language tag of its opening fence when a tag is present and is
\* not bash, and shell otherwise; a bash block followed by a python block
\* gives two records with command_type shell and python in that order.
C13_FallbackType ==
    (op = "parse" /\ impl \in {"main", "refactored"} /\ pc = "done")
    => /\ content = BashThenPython
          => /\ Len(result.value) = 2
             /\ result.value[1].command_type = <<"shell">>
             /\ result.value[2].command_type = <<"python">>
       /\ \A tag \in FenceTags :
             content = Text(Tagged(tag, <<"a">>))
             => \A n \in 1..Len(result.value) :
                    result.value[n].command_type =
                        IF strip(tag, WhiteSpace) \in {<<>>, <<"bash">>}
                        THEN <<"shell">> ELSE strip(tag, WhiteSpace)

\* a document of fenced blocks with the given language tags
TaggedBody(tag) == IF tag = "bash" THEN <<"x">> ELSE <<"a">>
TaggedDocument(tags) ==
    Text(Flatten([k \in 1..Len(tags) |-> Tagged(<<tags[k]>>, TaggedBody(tags[k]))]))

\* C14: for a document without numbered headings CodeBlockHandler.parse and
\* MarkdownParser.parse return one record per fenced block, in document
\* order, with the block content as command and the language tag of the
\* opening fence as command_type: bash gives bash and python gives python.
C14_TypeIsTag ==
    (op = "parse" /\ impl \in {"codeblock", "refactored"} /\ pc = "done")
    => \A n \in 1..MaxBlocks : \A tags \in [1..n -> {"bash", "python"}] :
           content = TaggedDocument(tags)
           => /\ result.kind = "return"
              /\ Len(result.value) = n
              /\ \A k \in 1..n :
                    /\ result.value[k].command = TaggedBody(tags[k])
                    /\ result.value[k].command_type = <<tags[k]>>

\* C15: every record of the code-block fallback (CodeBlockHandler.parse and
\* the second stage of MarkdownParser.parse) has the title Command from code
\* block, an empty metadata map, no error output, status Failed and
\* return_code 1.
C15_FallbackDefaults ==
    (op = "parse" /\ pc = "done" /\ result.kind = "return"
     /\ \/ impl = "codeblock"
        \/ impl \in {"main", "refactored"} /\ commands = <<>>)
    => \A n \in 1..Len(result.value) :
           /\ result.value[n].title = FallbackTitle
           /\ result.value[n].metadata = <<>>
           /\ result.value[n].error_output = None
           /\ result.value[n].status = <<"Failed">>
           /\ result.value[n].return_code = 1

\* the content holds no second-level heading and no fence
NoHeadingNoFence == \A k \in 1..Len(content) : content[k] \notin {H2, FENCE}

\* C16: MarkdownParser.parse returns the empty list, and raises nothing,
\* for the empty string and for every content with neither a numbered
\* heading nor a fenced block.
C16_EmptyResult ==
    (op = "parse" /\ impl \in {"main", "refactored"} /\ pc = "done"
     /\ NoHeadingNoFence)
    => result = Returned(<<>>)

\* a non-empty text of several sections without heading or fence was parsed
C16_Witness ==
    /\ op = "parse" /\ impl \in {"main", "refactored"} /\ pc = "done"
    /\ NoHeadingNoFence
    /\ Len(sections) > 1
    /\ \E k \in 1..Len(content) : content[k] = BT
    /\ result = Returned(<<>>)

\* the section is empty or starts with a numbered heading
HasTitle(section) ==
    LET text == strip(section, WhiteSpace)
    IN  text = <<>> \/ title_pattern(strip(split(text, NL)[1], WhiteSpace)).ok

\* C17: TodoFormatHandler.parse skips every non-empty section whose first
\* line is no numbered heading, raises nothing for it, and returns in order
\* the records of all other sections.
C17_SkipsUntitled ==
    (op = "parse" /\ impl = "handler" /\ Finished)
    => LET titled == SelectSeq(split_sections(impl, content), HasTitle)
       IN  /\ result.kind = "return"
           /\ result = parse_todo_format(impl, titled, 1, file_path, <<>>)

\* a section with a Status line under a Metadata header
StatusSection(value) ==
    Text(<<TitleLine("1.", "T"), Header("Metadata"),
           <<DASH, SP>> \o KeyValue("Status", value)>>)

\* C19: a Status key/value line stores the normalized status: the value
\* with the cross glyph before Failed gives Failed and the value Custom is
\* stored unchanged, in TodoFormatHandler as well as in MarkdownParser of
\* main.py.
C19_StatusNormalized ==
    (impl \in {"main", "handler"} /\ pc = "section" /\ sec_idx > Len(sections))
    => /\ content = StatusSection(<<CROSS, SP, "Failed">>)
          => state.command.status = <<"Failed">>
       /\ content = StatusSection(<<"Custom">>)
          => state.command.status = <<"Custom">>

\* a section whose command and output are given as fenced blocks
FencedCommand ==
    Text(<<TitleLine("1.", "T"), Header("Command")>> \o Fenced(<<"x">>)
         \o <<Header("Output")>> \o Fenced(<<"a">>))

\* C20: in MarkdownParser of main.py and of the refactored parser a fenced
\* block that closes under a Command header sets the command and one that
\* closes under an Output header sets the output, so a section whose command
\* is given only as a fenced block yields a record.
C20_FenceSetsField ==
    (op = "parse" /\ impl \in {"main", "refactored"} /\ content = FencedCommand
     /\ pc = "done")
    => /\ Len(result.value) = 1
       /\ result.value[1].title = <<"T">>
       /\ result.value[1].command = <<"x">>
       /\ result.value[1].output = <<"a">>

\* C18: once a record is in the list, no later step of the parse changes
\* any of its fields, and the object under construction is never one of
\* the objects in the list, nor are two entries of the list one object.
C18_EmittedFrozen ==
    [][/\ \A n \in 1..Len(commands) : commands'[n] = commands[n]
       /\ pc' = "line" => \A n \in 1..Len(refs') : refs'[n] # cur_ref'
       /\ \A n, k \in 1..Len(refs') : refs'[n] = refs'[k] => n = k]_vars

\* a second section of main.py or of the legacy parser has changed the
\* command under construction while the list holds the first section's
C18_Witness ==
    /\ impl \in {"main", "legacy"} /\ pc = "line" /\ line_idx > 1
    /\ Len(commands) = 1
    /\ state.command.command # <<>>
    /\ state.command.command # commands[1].command

\* C21: when the lines of a section end while a fence is open, main.py and
\* the legacy parser commit the buffered lines as an explicit closing
\* delimiter would: the record after the section equals the record the
\* same lines followed by a closing fence give.
C21_OpenFenceCommitted ==
    (impl \in {"main", "legacy"} /\ pc = "line" /\ line_idx > Len(lines)
     /\ state.in_code_block)
    => end_of_lines(impl, state).command
           = end_of_lines(impl, process_line(impl, state, <<FENCE>>)).command

\* C22: while a fence is open no line changes the current subsection or a
\* field of the record: a line that is not exactly the delimiter is only
\* appended to the fence buffer, and only a line that is exactly the
\* delimiter closes the fence.
C22_FenceBuffersLines ==
    [][(pc = "line" /\ pc' = "line" /\ state.in_code_block
        /\ impl \in {"main", "handler", "refactored"})
       => IF strip(lines[line_idx], WhiteSpace) \in {<<FENCE>>, <<TILDE>>}
          THEN ~state'.in_code_block
          ELSE /\ state'.in_code_block
               /\ state'.command = state.command
               /\ state'.current_section = state.current_section
               /\ state'.code_block_content =
                      Append(state.code_block_content,
                             rstrip(lines[line_idx], WhiteSpace))]_vars

\* the subsection of a lowered header label, by the first rule that matches
Classified(label) ==
    IF contains(label, "command") THEN SecCommand
    ELSE IF contains(label, "output") /\ ~contains(label, "error") THEN SecOutput
    ELSE IF contains(label, "error") \/ contains(label, "stderr") THEN SecErrorOutput
    ELSE IF contains(label, "suggested") /\ contains(label, "solution")
    THEN SecSuggested
    ELSE IF contains(label, "metadata") THEN SecMetadata
    ELSE NoSection

\* a section whose only header is not recognized
UnknownHeader ==
    Text(<<TitleLine("1.", "T"), Header("Notes"), <<"e">>,
           KeyValue("Status", <<"Custom">>)>> \o Fenced(<<"a">>))

\* C23: a subsection header outside a fence sets the subsection given by
\* the first matching rule (command, output, error_output,
\* suggested_solution, metadata, else none), and under a header that no
\* rule matches no plain line, key/value line or fenced block changes a
\* field of the record.
C23_HeaderClassified ==
    [][(pc = "line" /\ impl \in {"main", "refactored"})
       => /\ (pc' = "line" /\ ~state.in_code_block
              /\ hash_header_pattern(rstrip(lines[line_idx], WhiteSpace)).ok)
             => state'.current_section = Classified(lower(
                    hash_header_pattern(rstrip(lines[line_idx], WhiteSpace)).g1))
          /\ (pc' = "section" /\ content = UnknownHeader)
             => state'.command = create_command(impl, <<"T">>, file_path)]_vars

\* one titled section made of the given lines
TitledSection(ls) == Text(<<TitleLine("1.", "T")>> \o ls)

\* the lines of the section have all been processed
SectionDone == pc = "section" /\ sec_idx > Len(sections)

\* C24: plain lines accumulate: two non-blank lines a and b under an Output
\* header leave output = "a\nb", and under an Error Output header
\* error_output = "a\nb", in MarkdownParser of main.py and in
\* TodoFormatHandler.
C24_PlainLinesJoined ==
    (impl \in {"main", "handler"} /\ SectionDone)
    => /\ content = TitledSection(<<Header("Output"), <<"a">>, <<"b">>>>)
          => state.command.output = <<"a", NL, "b">>
       /\ content = TitledSection(<<Header("Error Output"), <<"a">>, <<"b">>>>)
          => error_text(state.command) = <<"a", NL, "b">>

\* a Return Code and an Execution Time line with a value, then one each
\* with a value that is no number
BadNumbers ==
    TitledSection(<<Header("Metadata"), KeyValue("Return Code", <<"2">>),
                    KeyValue("Execution Time", <<"1.47", "s">>),
                    KeyValue("Return Code", <<"abc">>),
                    KeyValue("Execution Time", <<"abc">>)>>)

\* C25: after a Return Code line whose value is no integer return_code is
\* 1, and after an Execution Time line whose value is no number
\* execution_time is 0.0, whatever earlier lines of the section had set;
\* neither raises. Checked for main.py and for the legacy parser.
C25_BadNumbersReset ==
    (impl \in {"main", "legacy"} /\ content = BadNumbers /\ SectionDone)
    => /\ state.command.return_code = 1
       /\ state.command.execution_time = "0.0"

\* no line of the text consists of the rule alone
NoRuleLine ==
    \A n \in 1..Len(split(content, NL)) :
        strip(split(content, NL)[n], WhiteSpace) # <<RULE>>

\* a command that contains the rule inside its line, then a Return Code
RuleInCommand ==
    TitledSection(<<KeyValue("Command", <<BT, "a", SP, RULE, SP, "b", BT>>),
                    KeyValue("Return Code", <<"2">>)>>)

\* C26: the TODO-format parse splits a document only at lines that consist
\* of the rule alone: a document without such a line is one section, and
\* the fields that follow a rule inside a longer line stay in the record.
C26_SplitAtRuleLines ==
    (op = "parse" /\ impl \in {"main", "refactored", "handler"} /\ pc # "call"
     /\ NoRuleLine)
    => /\ Len(sections) = 1
       /\ (impl = "refactored" /\ content = RuleInCommand /\ pc = "done")
          => /\ Len(result.value) = 1
             /\ result.value[1].command = <<"a", SP, RULE, SP, "b">>
             /\ result.value[1].return_code = 2

\* C27: clean_status maps every decorated status of its vocabulary to the
\* plain word, returns an undecorated status unchanged, and is idempotent:
\* after a Status line of a Metadata subsection the status of the record is
\* the word of the value, and normalizing it again changes nothing.
C27_StatusVocabulary ==
    [][(pc = "line" /\ pc' = "line" /\ impl \in {"main", "legacy"}
        /\ state.current_section = SecMetadata /\ ~state.in_code_block)
       => \A n \in 1..Len(StatusValues) :
              lines[line_idx] = KeyValue("Status", StatusValues[n])
              => /\ state'.command.status =
                        <<StatusValues[n][Len(StatusValues[n])]>>
                 /\ clean_status(state'.command.status) = state'.command.status
                 /\ clean_status(<<>>) = <<>>]_vars

\* C28: the command of every emitted record neither begins nor ends with a
\* backtick, whether it came from a Command key/value line (the value x in
\* backticks gives x) or from a fenced block of the code-block fallback.
C28_NoBackticks ==
    (op = "parse" /\ impl \in {"main", "refactored", "codeblock"} /\ pc = "done"
     /\ result.kind = "return")
    => \A n \in 1..Len(result.value) :
           LET command == result.value[n].command
           IN  command # <<>>
               => command[1] \notin BackTicks /\ command[Len(command)] \notin BackTicks

\* a fenced block before any subsection header, then one under Output
EarlierBlock ==
    TitledSection(Fenced(<<"a">>) \o <<Header("Output")>> \o Fenced(<<"b">>))

\* C29: in TodoFormatHandler._parse_section the fence buffer is empty
\* whenever a fence opens, so the content committed when a fence closes is
\* that of the one block: the lines of an earlier block that closed while
\* no subsection was active appear in no field.
C29_BufferPerBlock ==
    [][(impl = "handler" /\ pc = "line")
       => /\ (pc' = "line" /\ ~state.in_code_block /\ state'.in_code_block)
             => state'.code_block_content = <<>>
          /\ (pc' = "section" /\ content = EarlierBlock)
             => state'.command.output = <<"b">>]_vars

\* the lines that begin with a fence, in order
FenceLines(ls) ==
    SelectSeq([n \in 1..Len(ls) |-> n],
              LAMBDA n : ls[n] # <<>> /\ ls[n][1] = FENCE)

\* the contents of the fenced blocks when the fences are paired in order:
\* the first with the second, the third with the fourth
PairedBlocks(text) ==
    LET ls == split(text, NL)
        f == FenceLines(ls)
    IN  { strip(join(NL, SubSeq(ls, f[2 * k - 1] + 1, f[2 * k] - 1)), WhiteSpace) :
            k \in 1..(Len(f) \div 2) }

\* C30: in the code-block fallback the command of every record is the
\* content of one fenced block of the document, the fences being paired in
\* order: text between a closing fence and the next opening fence never
\* becomes a command, whatever follows an opening fence on its line.
C30_FencesPaired ==
    (op = "parse" /\ pc = "done" /\ result.kind = "return"
     /\ \/ impl = "codeblock"
        \/ impl = "main" /\ commands = <<>>)
    => \A n \in 1..Len(result.value) :
           result.value[n].command \in PairedBlocks(content)

=============================================================================
